---------------------------- MODULE Spec2Model ----------------------------
(***************************************************************************)
(* Model of the finances-tracker dashboard (web/src/lib/loadCsv.js): the   *)
(* App component's state, its startup load effect, its input handlers and  *)
(* the memoised analytics pipeline (filtered, nonTransfer, monthlySeries,  *)
(* spendByCategory, topMerchants, summary, recentTransactions).            *)
(*                                                                         *)
(* Conventions of the encoding                                             *)
(*  - a row is a TLA+ record; a key the CSV row lacks is absent from the   *)
(*    record's DOMAIN (JavaScript undefined);                              *)
(*  - amounts are JavaScript Numbers in the source; here they are held in  *)
(*    cents, as integers (Number("-40.00") is -4000), so sums are exact;   *)
(*  - a parsed date is the integer yyyymmdd, null is 0;                    *)
(*  - a month key "yyyy-MM" is the integer yyyymm, the empty key "" is 0;  *)
(*  - the library functions on strings (parseISO, Number, toLowerCase,     *)
(*    trim, localeCompare) are tables over the strings of the model.       *)
(***************************************************************************)
EXTENDS Integers, Sequences, FiniteSets, TLC

(***************************************************************************)
(* Bounds of the model                                                     *)
(***************************************************************************)
\* longest CSV file enumerated row by row over RawUniverse
MaxRows == 2

\* number of rows of the generated large ledger
BulkRows == 16

(***************************************************************************)
(* Program constants                                                       *)
(***************************************************************************)
\* .slice(0, 10) of spendByCategory and topMerchants
TopN == 10

\* .slice(0, 12) of recentTransactions
RecentN == 12

null == 0

FallbackStart == "2026-01-01"

FallbackEnd == "2026-12-31"

(***************************************************************************)
(* Library functions, as tables over the strings of the model              *)
(***************************************************************************)
\* every date string of the model, in localeCompare order
DateStrings ==
  << "", "2026-01-01", "2026-01-05", "2026-01-10", "2026-02-01",
     "2026-02-28", "2026-12-31", "n/a", "undefined" >>

\* date-fns parseISO followed by isValid: the date, or null
parseISO(s) ==
  CASE s = "2026-01-01" -> 20260101
    [] s = "2026-01-05" -> 20260105
    [] s = "2026-01-10" -> 20260110
    [] s = "2026-02-01" -> 20260201
    [] s = "2026-02-28" -> 20260228
    [] s = "2026-12-31" -> 20261231
    [] OTHER -> null

\* date-fns format(d, "yyyy-MM-dd")
formatDay(d) ==
  CHOOSE s \in { DateStrings[i] : i \in 1..Len(DateStrings) } : parseISO(s) = d

\* date-fns format(d, "yyyy-MM"), as the integer yyyymm
formatMonth(d) == d \div 100

\* String.prototype.localeCompare: negative, zero or positive
localeCompare(a, b) ==
  LET rank(s) == CHOOSE i \in 1..Len(DateStrings) : DateStrings[i] = s
  IN  rank(a) - rank(b)

\* Number(v) on the amount strings of the model; NaN is [nan |-> TRUE]
Number(v) ==
  CASE v = "-40.00" -> [nan |-> FALSE, val |-> -4000]
    [] v = "2000.00" -> [nan |-> FALSE, val |-> 200000]
    [] v = "-15.50" -> [nan |-> FALSE, val |-> -1550]
    [] v = "-25.00" -> [nan |-> FALSE, val |-> -2500]
    [] v = "-10.00" -> [nan |-> FALSE, val |-> -1000]
    [] v = "500.00" -> [nan |-> FALSE, val |-> 50000]
    [] v = "300.00" -> [nan |-> FALSE, val |-> 30000]
    [] v = "-5.00" -> [nan |-> FALSE, val |-> -500]
    [] v = "-4.00" -> [nan |-> FALSE, val |-> -400]
    [] v = "-3.00" -> [nan |-> FALSE, val |-> -300]
    [] v = "-2.00" -> [nan |-> FALSE, val |-> -200]
    [] v = "-1.00" -> [nan |-> FALSE, val |-> -100]
    [] v = "0" -> [nan |-> FALSE, val |-> 0]
    [] v = "" -> [nan |-> FALSE, val |-> 0]
    [] OTHER -> [nan |-> TRUE, val |-> 0]

\* String.prototype.toLowerCase
toLowerCase(s) ==
  CASE s = "TRUE" -> "true"
    [] s = "True" -> "true"
    [] s = "FALSE" -> "false"
    [] OTHER -> s

\* String.prototype.trim
trim(s) ==
  CASE s = " " -> ""
    [] s = "  " -> ""
    [] OTHER -> s

Abs(n) == IF n < 0 THEN -n ELSE n

\* r[f] is present and truthy (a non-empty string)
Truthy(r, f) == f \in DOMAIN r /\ r[f] # ""

\* String(r[f]): the field, "undefined" when the key is absent
Str(r, f) == IF f \in DOMAIN r THEN r[f] ELSE "undefined"

\* the sort comparators of the pipeline
byMonth(a, b) == a.month - b.month

\* variant: ascending comparator
bySpendAsc(a, b) == a.spend - b.spend

bySpendDesc(a, b) == b.spend - a.spend

byDateDesc(a, b) == localeCompare(Str(b, "date"), Str(a, "date"))

compare(cmp, a, b) ==
  CASE cmp = "byMonth" -> byMonth(a, b)
    [] cmp = "bySpendDesc" -> bySpendDesc(a, b)
    [] cmp = "byDateDesc" -> byDateDesc(a, b)

\* Array.prototype.sort with the comparator named cmp: stable
sortBy(s, cmp) ==
  LET insert(sorted, x) ==
        LET k == Cardinality({ j \in 1..Len(sorted) :
                                compare(cmp, sorted[j], x) <= 0 })
        IN  SubSeq(sorted, 1, k) \o << x >> \o SubSeq(sorted, k + 1, Len(sorted))
      f[n \in 0..Len(s)] == IF n = 0 THEN << >> ELSE insert(f[n - 1], s[n])
  IN  f[Len(s)]

\* Array.prototype.slice(0, n)
slice(s, n) == SubSeq(s, 1, IF Len(s) < n THEN Len(s) ELSE n)

(***************************************************************************)
(* Conversions of the record normaliser                                    *)
(***************************************************************************)
toBool(v) == toLowerCase(v) = "true"

toNum(v) ==
  LET n == Number(v)
  IN  IF ~n.nan THEN n.val ELSE 0

safeParseDate(value) == parseISO(value)

monthKey(isoDateStr) ==
  LET d == safeParseDate(isoDateStr)
  IN  IF d = null THEN 0 ELSE formatMonth(d)

CATEGORY_LABELS ==
  [ cat_income |-> "Income", cat_housing |-> "Housing", cat_rent |-> "Rent",
    cat_utilities |-> "Utilities", cat_internet |-> "Internet",
    cat_food |-> "Food", cat_groceries |-> "Groceries", cat_dining |-> "Dining",
    cat_transport |-> "Transport", cat_gas |-> "Gas",
    cat_transit |-> "Public Transit", cat_auto |-> "Auto Maintenance",
    cat_health |-> "Health", cat_pharmacy |-> "Pharmacy",
    cat_insurance |-> "Insurance", cat_entertainment |-> "Entertainment",
    cat_streaming |-> "Streaming", cat_events |-> "Events",
    cat_shopping |-> "Shopping", cat_clothes |-> "Clothes",
    cat_homegoods |-> "Home Goods", cat_travel |-> "Travel",
    cat_fees |-> "Fees", cat_interest |-> "Interest",
    cat_transfers |-> "Transfers", cat_uncategorized |-> "Uncategorized" ]

labelForCategory(id) ==
  IF id = "" THEN "Uncategorized"
  ELSE IF id \in DOMAIN CATEGORY_LABELS THEN CATEGORY_LABELS[id]
  ELSE CASE id = "cat_pet_care" -> "pet care"
         [] id = "  " -> "  "
         [] OTHER -> id

(***************************************************************************)
(* The CSV files the load may return (the rows Papa.parse hands back)      *)
(***************************************************************************)
ScenarioRows ==
  << [date |-> "2026-01-05", amount |-> "-40.00", is_transfer |-> "false",
      category_id |-> "cat_food"],
     [date |-> "2026-01-10", amount |-> "2000.00", is_transfer |-> "false"],
     [date |-> "2026-02-01", amount |-> "-15.50", is_transfer |-> "true"] >>

\* a ledger with one row of every kind
MixedRows ==
  ScenarioRows \o
  << [date |-> "2026-02-01", amount |-> "-25.00", is_transfer |-> "false",
      category_id |-> "cat_food", subcategory_id |-> "cat_dining",
      merchant |-> "Cafe"],
     [date |-> "2026-01-05", amount |-> "-10.00", is_transfer |-> "",
      category_id |-> "", subcategory_id |-> "  ", merchant |-> "  "],
     [date |-> "2026-01-10", amount |-> "500.00", is_transfer |-> "TRUE",
      merchant |-> "Bank"],
     [date |-> "n/a", amount |-> "300.00", is_transfer |-> "false"],
     [amount |-> "-5.00", category_id |-> "cat_pet_care", merchant |-> ""] >>

\* the rows the small files are made of
RawUniverse == { MixedRows[i] : i \in 1..Len(MixedRows) }

OddRows ==
  << [date |-> "2026-01-05", amount |-> "not_a_number", is_transfer |-> "false",
      category_id |-> "cat_food", merchant |-> "Cafe"],
     [date |-> "2026-01-10", amount |-> "0", is_transfer |-> "false",
      merchant |-> "Cafe"],
     [date |-> "2026-02-28", amount |-> "", is_transfer |-> "True"] >>

BulkDates == << "2026-01-05", "2026-01-10", "2026-02-01", "2026-02-28" >>

BulkAmounts == << "-1.00", "-2.00", "-3.00", "-4.00", "-5.00" >>

BulkCats ==
  << "cat_rent", "cat_utilities", "cat_internet", "cat_groceries", "cat_gas",
     "cat_transit", "cat_auto", "cat_pharmacy", "cat_insurance",
     "cat_streaming", "cat_events", "cat_clothes" >>

BulkMerchants ==
  << "m01", "m02", "m03", "m04", "m05", "m06", "m07", "m08", "m09", "m10",
     "m11", "m12", "m13" >>

\* a ledger of BulkRows rows: more than TopN categories and merchants, more
\* than RecentN rows, ties in spend, a transfer every seventh row
BulkLedger ==
  [ i \in 1..BulkRows |->
      [ date |-> BulkDates[(i % Len(BulkDates)) + 1],
        amount |-> BulkAmounts[((i * 3) % Len(BulkAmounts)) + 1],
        is_transfer |-> IF i % 7 = 0 THEN "true" ELSE "false",
        category_id |-> BulkCats[((i - 1) % Len(BulkCats)) + 1],
        merchant |-> BulkMerchants[((i - 1) % Len(BulkMerchants)) + 1] ] ]

SmallFiles == UNION { [1..n -> RawUniverse] : n \in 0..MaxRows }

CsvFiles == SmallFiles \cup { ScenarioRows, MixedRows, OddRows, BulkLedger }

\* the values an <input type="date"> can hand to onChange
DateInputs == { "", "2026-01-01", "2026-01-10", "2026-02-28" }

(***************************************************************************)
(* State of the App component                                              *)
(***************************************************************************)
VARIABLES tx, loading, error, start, end, showTransfers, theme, pc

vars == << tx, loading, error, start, end, showTransfers, theme, pc >>

Init ==
  /\ tx = << >>
  /\ loading = TRUE
  /\ error = ""
  /\ start = FallbackStart
  /\ end = FallbackEnd
  /\ showTransfers = FALSE
  /\ theme = "day"
  /\ pc = "mount"

(***************************************************************************)
(* The load effect                                                         *)
(***************************************************************************)
\* rows.map((r) => ({...r, amount: toNum(r.amount), is_transfer: toBool(..)}))
normalize(r) ==
  [ f \in DOMAIN r \cup { "amount", "is_transfer" } |->
      IF f = "amount" THEN toNum(Str(r, "amount"))
      ELSE IF f = "is_transfer" THEN toBool(Str(r, "is_transfer"))
      ELSE r[f] ]

normalized(rows) == [ i \in 1..Len(rows) |-> normalize(rows[i]) ]

\* the parsed dates of the rows that have one
parsedDates(rows) ==
  { safeParseDate(Str(rows[i], "date")) : i \in 1..Len(rows) } \ { null }

SetMin(S) == CHOOSE x \in S : \A y \in S : x <= y

SetMax(S) == CHOOSE x \in S : \A y \in S : y <= x

\* the effect starts: setLoading(true); setError(""); then awaits the fetch
RunEffect ==
  /\ pc = "mount"
  /\ pc' = "fetching"
  /\ loading' = TRUE
  /\ error' = ""
  /\ UNCHANGED << tx, start, end, showTransfers, theme >>

\* variant: the rejection is swallowed, no message is set
FetchRejectedSilent ==
  /\ pc = "fetching"
  /\ pc' = "done"
  /\ loading' = FALSE
  /\ UNCHANGED << tx, error, start, end, showTransfers, theme >>

\* fetch rejects (source unreachable): catch, finally
FetchRejected ==
  /\ pc = "fetching"
  /\ pc' = "done"
  /\ error' = "TypeError: Failed to fetch"
  /\ loading' = FALSE
  /\ UNCHANGED << tx, start, end, showTransfers, theme >>

\* res.ok is false: loadCsv throws; catch, finally
ResponseNotOk ==
  /\ pc = "fetching"
  /\ pc' = "done"
  /\ error' = "Error: Failed to fetch /data/transactions.csv"
  /\ loading' = FALSE
  /\ UNCHANGED << tx, start, end, showTransfers, theme >>

\* loadCsv resolves with the parsed rows
LoadResolved ==
  /\ pc = "fetching"
  /\ \E rows \in CsvFiles :
       LET n == normalized(rows)
           dates == parsedDates(n)
       IN  /\ tx' = n
           /\ IF dates # {}
              THEN /\ start' = formatDay(SetMin(dates))
                   /\ end' = formatDay(SetMax(dates))
              ELSE UNCHANGED << start, end >>
  /\ pc' = "done"
  /\ loading' = FALSE
  /\ UNCHANGED << error, showTransfers, theme >>

(***************************************************************************)
(* The input handlers; the inputs are rendered only once loading is false  *)
(***************************************************************************)
SetStart ==
  /\ ~loading
  /\ \E v \in DateInputs : start' = v
  /\ UNCHANGED << tx, loading, error, end, showTransfers, theme, pc >>

SetEnd ==
  /\ ~loading
  /\ \E v \in DateInputs : end' = v
  /\ UNCHANGED << tx, loading, error, start, showTransfers, theme, pc >>

SetShowTransfers ==
  /\ ~loading
  /\ showTransfers' = ~showTransfers
  /\ UNCHANGED << tx, loading, error, start, end, theme, pc >>

SetTheme ==
  /\ ~loading
  /\ theme' = IF theme = "day" THEN "night" ELSE "day"
  /\ UNCHANGED << tx, loading, error, start, end, showTransfers, pc >>

Next ==
  \/ RunEffect
  \/ FetchRejected
  \/ ResponseNotOk
  \/ LoadResolved
  \/ SetStart
  \/ SetEnd
  \/ SetShowTransfers
  \/ SetTheme

Spec == Init /\ [][Next]_vars

\* the fetch promise settles: the browser resolves or rejects every request
FairSpec == Spec /\ WF_vars(RunEffect) /\ WF_vars(FetchRejected \/ ResponseNotOk \/ LoadResolved)

(***************************************************************************)
(* The memoised pipeline, as functions of the state they depend on         *)
(***************************************************************************)
\* variant: the upper bound compared the wrong way round
inRangeEndSwapped(r, s, e) ==
  LET d == safeParseDate(Str(r, "date"))
  IN  d # null /\ d >= s /\ d >= e

\* variant: the upper bound exclusive
inRangeEndExclusive(r, s, e) ==
  LET d == safeParseDate(Str(r, "date"))
  IN  d # null /\ d >= s /\ d < e

inRange(r, s, e) ==
  LET d == safeParseDate(Str(r, "date"))
  IN  d # null /\ d >= s /\ d <= e

filtered(rows, st, en) ==
  LET s == safeParseDate(st)
      e == safeParseDate(en)
  IN  IF s = null \/ e = null THEN rows
      ELSE SelectSeq(rows, LAMBDA r : inRange(r, s, e))

nonTransfer(flt) == SelectSeq(flt, LAMBDA r : ~r.is_transfer)

rowsForAnalytics(show, flt) == IF show THEN flt ELSE nonTransfer(flt)

\* map.get(k): the index of key k in an insertion-ordered map, 0 when absent
mapIndex(m, k) ==
  IF \E i \in 1..Len(m) : m[i].key = k
  THEN CHOOSE i \in 1..Len(m) : m[i].key = k
  ELSE 0

\* variant: expenses accumulate the signed amount (Math.abs missing)
monthlyAddSigned(m, mk, a) ==
  LET m1 == IF mapIndex(m, mk) = 0
            THEN Append(m, [key |-> mk, month |-> mk, income |-> 0,
                            expenses |-> 0, cashflow |-> 0])
            ELSE m
      i == mapIndex(m1, mk)
      inc == m1[i].income + (IF a > 0 THEN a ELSE 0)
      exp == m1[i].expenses + (IF a < 0 THEN a ELSE 0)
  IN  [m1 EXCEPT ![i] = [key |-> mk, month |-> mk, income |-> inc,
                         expenses |-> exp, cashflow |-> inc - exp]]

\* the month bucket of key mk, created when missing, with amount a added
monthlyAdd(m, mk, a) ==
  LET m1 == IF mapIndex(m, mk) = 0
            THEN Append(m, [key |-> mk, month |-> mk, income |-> 0,
                            expenses |-> 0, cashflow |-> 0])
            ELSE m
      i == mapIndex(m1, mk)
      inc == m1[i].income + (IF a > 0 THEN a ELSE 0)
      exp == m1[i].expenses + (IF a < 0 THEN Abs(a) ELSE 0)
  IN  [m1 EXCEPT ![i] = [key |-> mk, month |-> mk, income |-> inc,
                         expenses |-> exp, cashflow |-> inc - exp]]

\* variant: the transfer test is missing
monthlyStepNoSkip(m, r) ==
  LET mk == monthKey(Str(r, "date")) IN
    IF mk = 0 THEN m ELSE monthlyAdd(m, mk, r.amount)

\* one iteration of the loop of monthlySeries
monthlyStep(m, r) ==
  IF r.is_transfer THEN m
  ELSE LET mk == monthKey(Str(r, "date")) IN
    IF mk = 0 THEN m ELSE monthlyAdd(m, mk, r.amount)

monthlySeries(rows) ==
  LET f[n \in 0..Len(rows)] ==
        IF n = 0 THEN << >> ELSE monthlyStep(f[n - 1], rows[n])
      out == sortBy(f[Len(rows)], "byMonth")
  IN  [ i \in 1..Len(out) |->
          [month |-> out[i].month, income |-> out[i].income,
           expenses |-> out[i].expenses, cashflow |-> out[i].cashflow] ]

\* map.set(k, (map.get(k) || 0) + v)
mapAdd(m, k, v) ==
  LET i == mapIndex(m, k)
  IN  IF i = 0 THEN Append(m, [key |-> k, val |-> v])
      ELSE [m EXCEPT ![i].val = @ + v]

\* variant: category_id wins over subcategory_id
catIdCategoryFirst(r) ==
  IF Truthy(r, "category_id") THEN r.category_id
  ELSE IF Truthy(r, "subcategory_id") /\ trim(r.subcategory_id) # ""
  THEN r.subcategory_id
  ELSE "cat_uncategorized"

\* the effective category of a row
catId(r) ==
  IF Truthy(r, "subcategory_id") /\ trim(r.subcategory_id) # ""
  THEN r.subcategory_id
  ELSE IF Truthy(r, "category_id") THEN r.category_id ELSE "cat_uncategorized"

\* the Map built by the loop of spendByCategory
categoryMap(rows) ==
  LET f[n \in 0..Len(rows)] ==
        IF n = 0 THEN << >>
        ELSE LET r == rows[n] IN
          IF r.is_transfer \/ r.amount >= 0 THEN f[n - 1]
          ELSE mapAdd(f[n - 1], catId(r), Abs(r.amount))
  IN  f[Len(rows)]

spendByCategory(rows) ==
  LET m == categoryMap(rows)
      entries == [ i \in 1..Len(m) |->
                     [categoryId |-> m[i].key,
                      category |-> labelForCategory(m[i].key),
                      spend |-> m[i].val] ]
  IN  slice(sortBy(entries, "bySpendDesc"), TopN)

\* the grouping key of topMerchants
merchantKey(r) == IF Truthy(r, "merchant") THEN r.merchant ELSE "(unknown)"

\* the Map built by the loop of topMerchants
merchantMap(rows) ==
  LET f[n \in 0..Len(rows)] ==
        IF n = 0 THEN << >>
        ELSE LET r == rows[n] IN
          IF r.is_transfer \/ r.amount >= 0 THEN f[n - 1]
          ELSE mapAdd(f[n - 1], merchantKey(r), Abs(r.amount))
  IN  f[Len(rows)]

topMerchants(rows) ==
  LET m == merchantMap(rows)
      entries == [ i \in 1..Len(m) |-> [merchant |-> m[i].key, spend |-> m[i].val] ]
  IN  slice(sortBy(entries, "bySpendDesc"), TopN)

\* one iteration of the loop of summary
summaryAdd(acc, a) ==
  [income |-> acc.income + (IF a > 0 THEN a ELSE 0),
   expenses |-> acc.expenses + (IF a < 0 THEN Abs(a) ELSE 0)]

\* variant: the transfer test is missing
summaryNoSkip(rows) ==
  LET f[n \in 0..Len(rows)] ==
        IF n = 0 THEN [income |-> 0, expenses |-> 0]
        ELSE summaryAdd(f[n - 1], rows[n].amount)
      t == f[Len(rows)]
  IN  [income |-> t.income, expenses |-> t.expenses,
       cashflow |-> t.income - t.expenses]

summary(rows) ==
  LET f[n \in 0..Len(rows)] ==
        IF n = 0 THEN [income |-> 0, expenses |-> 0]
        ELSE IF rows[n].is_transfer THEN f[n - 1]
        ELSE summaryAdd(f[n - 1], rows[n].amount)
      t == f[Len(rows)]
  IN  [income |-> t.income, expenses |-> t.expenses,
       cashflow |-> t.income - t.expenses]

\* variant: the toggle is ignored
recentIgnoresToggle(show, flt) == slice(sortBy(flt, "byDateDesc"), RecentN)

recentTransactions(show, flt) ==
  LET rows == IF show THEN flt ELSE nonTransfer(flt)
  IN  slice(sortBy(rows, "byDateDesc"), RecentN)

(***************************************************************************)
(* What the current render shows                                           *)
(***************************************************************************)
curFiltered == filtered(tx, start, end)

curRows == rowsForAnalytics(showTransfers, curFiltered)

curMonthly == monthlySeries(curRows)

curCategories == spendByCategory(curRows)

curMerchants == topMerchants(curRows)

curSummary == summary(curRows)

curRecent == recentTransactions(showTransfers, curFiltered)


(***************************************************************************)
(* Vocabulary of the properties                                            *)
(***************************************************************************)
Indices(seq) == 1..Len(seq)

\* the rows of seq at the indices of I, in their original order
SubseqAt(seq, I) ==
  [ k \in 1..Cardinality(I) |->
      seq[CHOOSE i \in I : Cardinality({ j \in I : j < i }) = k - 1] ]

\* sum of val(seq[i]) over the indices of I
SumOver(seq, I, val(_)) ==
  LET f[n \in 0..Len(seq)] ==
        IF n = 0 THEN 0
        ELSE f[n - 1] + (IF n \in I THEN val(seq[n]) ELSE 0)
  IN  f[Len(seq)]

\* the rows of seq that are expenses and no transfers
ExpenseIdx(seq) == { i \in Indices(seq) : ~seq[i].is_transfer /\ seq[i].amount < 0 }

\* the value the insertion-ordered map m holds for key k, 0 when it has none
MapValue(m, k) ==
  IF \E i \in Indices(m) : m[i].key = k
  THEN LET i == CHOOSE j \in Indices(m) : m[j].key = k IN m[i].val
  ELSE 0

DateValid(r) == parseISO(Str(r, "date")) # null

Ready == ~loading /\ error = ""

Failed == ~loading /\ error # ""

(***************************************************************************)
(* C2: the concrete scenario of three records, range 2026-01-01 ..         *)
(* 2026-02-28, toggle off.                                                 *)
(***************************************************************************)
ScenarioState ==
  /\ pc = "done"
  /\ tx = normalized(ScenarioRows)
  /\ start = "2026-01-01"
  /\ end = "2026-02-28"
  /\ ~showTransfers

ScenarioJanuary ==
  [month |-> 202601, income |-> 200000, expenses |-> 4000, cashflow |-> 196000]

ScenarioRest ==
  /\ curSummary = [income |-> 200000, expenses |-> 4000, cashflow |-> 196000]
  /\ Len(curCategories) = 1
  /\ curCategories[1].categoryId = "cat_food"
  /\ curCategories[1].spend = 4000

\* C2 as stated: in the scenario monthlySeries is the January entry followed
\* by a 2026-02 entry of zeros, summary is 2000/40/1960 and the category list
\* is [cat_food, 40] (amounts in cents).
C2_ScenarioAsStated ==
  ScenarioState =>
    /\ curMonthly = << ScenarioJanuary,
                       [month |-> 202602, income |-> 0, expenses |-> 0,
                        cashflow |-> 0] >>
    /\ ScenarioRest

\* C2 amended: in the scenario monthlySeries is the January entry alone (the
\* transfer of 2026-02-01 creates no month), summary is 2000/40/1960 and the
\* category list is [cat_food, 40].
C2_ScenarioAmended ==
  ScenarioState => (curMonthly = << ScenarioJanuary >> /\ ScenarioRest)

C2_Witness == ScenarioState /\ Len(curFiltered) = 3 /\ Len(curMonthly) = 1

(***************************************************************************)
(* C1: transfer exclusion.                                                 *)
(***************************************************************************)
\* the ledger with every transfer record removed
withoutTransfers(rows) ==
  SubseqAt(rows, { i \in Indices(rows) : ~rows[i].is_transfer })

\* C1: for the current records and range and for both values of the toggle,
\* monthlySeries, spendByCategory, topMerchants and summary equal the outputs
\* computed over the same ledger with every is_transfer record removed; hence
\* they are the same for toggle on and toggle off.
C1_TransferExclusion ==
  LET clean == filtered(withoutTransfers(tx), start, end)
  IN  \A show \in BOOLEAN :
        LET rows == rowsForAnalytics(show, curFiltered)
        IN  /\ monthlySeries(rows) = monthlySeries(clean)
            /\ spendByCategory(rows) = spendByCategory(clean)
            /\ topMerchants(rows) = topMerchants(clean)
            /\ summary(rows) = summary(clean)

C1_Witness ==
  /\ showTransfers
  /\ \E i \in Indices(curRows) : curRows[i].is_transfer /\ curRows[i].amount > 0
  /\ \E i \in Indices(curRows) : curRows[i].is_transfer /\ curRows[i].amount < 0
  /\ curSummary.income > 0
  /\ curSummary.expenses > 0

(***************************************************************************)
(* C3: the date range filter.                                              *)
(***************************************************************************)
\* C3: when start and end both parse, the filtered set is the records, in
\* their original order, whose date parses and lies in [start, end], both
\* bounds included; when start or end does not parse it is the whole ledger.
C3_DateRangeFilter ==
  LET s == parseISO(start)
      e == parseISO(end)
      keep == { i \in Indices(tx) :
                  /\ DateValid(tx[i])
                  /\ s <= parseISO(Str(tx[i], "date"))
                  /\ parseISO(Str(tx[i], "date")) <= e }
  IN  IF s # null /\ e # null
      THEN curFiltered = SubseqAt(tx, keep)
      ELSE curFiltered = tx

C3_Witness ==
  /\ parseISO(start) # null
  /\ parseISO(end) # null
  /\ start # end
  /\ \E i \in Indices(curFiltered) : Str(curFiltered[i], "date") = end
  /\ \E i \in Indices(curFiltered) : Str(curFiltered[i], "date") = start
  /\ \E i \in Indices(tx) : ~DateValid(tx[i])
  /\ \E i \in Indices(tx) : DateValid(tx[i]) /\ parseISO(tx[i].date) > parseISO(end)

(***************************************************************************)
(* C4: filter monotonicity.                                                *)
(***************************************************************************)
\* the date settings the inputs and the load can produce
DateSettings == { s \in DateInputs \cup { start, end } : parseISO(s) # null }

\* every date of [s1, e1] is a date of [s2, e2]
RangeWithin(s1, e1, s2, e2) ==
  \/ parseISO(s1) > parseISO(e1)
  \/ parseISO(s2) <= parseISO(s1) /\ parseISO(e1) <= parseISO(e2)

\* C4: for the current ledger, every range contained in the current range
\* selects no more records than the current range does, and while the filter
\* is off (start or end unparseable) no setting selects more than is shown;
\* so no SetStart or SetEnd that narrows the range makes the filtered count
\* grow.
C4_FilterMonotone ==
  IF parseISO(start) # null /\ parseISO(end) # null
  THEN \A s1 \in DateSettings, e1 \in DateSettings :
         RangeWithin(s1, e1, start, end) =>
           Len(filtered(tx, s1, e1)) <= Len(curFiltered)
  ELSE \A s1 \in DateInputs \cup { start }, e1 \in DateInputs \cup { end } :
         Len(filtered(tx, s1, e1)) <= Len(curFiltered)

C4_Witness ==
  /\ parseISO(start) # null /\ parseISO(end) # null
  /\ \E s1 \in DateSettings, e1 \in DateSettings :
       /\ RangeWithin(s1, e1, start, end)
       /\ parseISO(s1) <= parseISO(e1)
       /\ 0 < Len(filtered(tx, s1, e1))
       /\ Len(filtered(tx, s1, e1)) < Len(curFiltered)

(***************************************************************************)
(* C5: summary consistency.                                                *)
(***************************************************************************)
Income(entry) == entry.income

AbsAmount(r) == Abs(r.amount)

\* total expense of the rows whose grouping key under key(_) is k
GroupSpend(rows, key(_), k) ==
  SumOver(rows, { i \in ExpenseIdx(rows) : key(rows[i]) = k }, AbsAmount)

GroupKeys(rows, key(_)) == { key(rows[i]) : i \in ExpenseIdx(rows) }

\* list (its keys given by keyOf) has at most TopN entries, in non-increasing
\* order of spend, and no group it leaves out spent more than one it keeps
TopNOf(list, keyOf(_), rows, key(_)) ==
  /\ Len(list) <= TopN
  /\ \A i \in Indices(list) : \A j \in Indices(list) :
       i < j => list[i].spend >= list[j].spend
  /\ \A k \in GroupKeys(rows, key) :
       (\A i \in Indices(list) : keyOf(list[i]) # k) =>
         \A i \in Indices(list) : GroupSpend(rows, key, k) <= list[i].spend

CategoryIdOf(entry) == entry.categoryId

MerchantOf(entry) == entry.merchant

\* C6: the category spend list and the merchant spend list each have at most
\* 10 entries, in non-increasing order of spend, and every group left out by
\* the truncation has spend no greater than that of any entry kept.
C6_TopNBounded ==
  /\ TopNOf(curCategories, CategoryIdOf, curRows, catId)
  /\ TopNOf(curMerchants, MerchantOf, curRows, merchantKey)

C6_Witness ==
  /\ Cardinality(GroupKeys(curRows, catId)) > TopN
  /\ Cardinality(GroupKeys(curRows, merchantKey)) > TopN
  /\ Len(curCategories) = TopN
  /\ Len(curMerchants) = TopN
  /\ curCategories[1].spend > curCategories[TopN].spend

(***************************************************************************)
(* C7: effective category.                                                 *)
(***************************************************************************)
\* the effective category as the data model states it
EffectiveCategory(r) ==
  IF "subcategory_id" \in DOMAIN r /\ trim(r.subcategory_id) # ""
  THEN r.subcategory_id
  ELSE IF "category_id" \in DOMAIN r /\ r.category_id # ""
  THEN r.category_id
  ELSE "cat_uncategorized"

CategoryKeys ==
  { "cat_food", "cat_dining", "cat_uncategorized", "cat_pet_care", "", "  " }
    \cup { BulkCats[i] : i \in Indices(BulkCats) }

\* C7: category aggregation credits the absolute amount of every non-transfer
\* expense to its effective category (subcategory_id when non-blank after
\* trimming, else category_id when non-empty, else cat_uncategorized) and to
\* no other: each category's total is the sum over the records whose
\* effective category it is, and every listed entry carries that total.
C7_EffectiveCategory ==
  /\ \A k \in CategoryKeys :
       MapValue(categoryMap(curRows), k) = GroupSpend(curRows, EffectiveCategory, k)
  /\ \A i \in Indices(curCategories) :
       /\ curCategories[i].categoryId \in CategoryKeys
       /\ curCategories[i].spend =
            GroupSpend(curRows, EffectiveCategory, curCategories[i].categoryId)

C7_Witness ==
  /\ \E i \in ExpenseIdx(curRows) :
       /\ Str(curRows[i], "category_id") = "cat_food"
       /\ Str(curRows[i], "subcategory_id") = "cat_dining"
  /\ \E i \in ExpenseIdx(curRows) :
       /\ Str(curRows[i], "category_id") = ""
       /\ Str(curRows[i], "subcategory_id") = "  "
  /\ \E i \in Indices(curCategories) :
       curCategories[i].categoryId = "cat_dining" /\ curCategories[i].spend = 2500
  /\ \A i \in Indices(curCategories) : curCategories[i].categoryId # "cat_food"

(***************************************************************************)
(* C8: the recency selector.                                               *)
(***************************************************************************)
\* the display row set: the filtered set, without transfers while the
\* toggle is off
DisplayRows ==
  IF showTransfers THEN curFiltered
  ELSE SubseqAt(curFiltered,
                { i \in Indices(curFiltered) : ~curFiltered[i].is_transfer })

Count(seq, x) == Cardinality({ i \in Indices(seq) : seq[i] = x })

\* C8: recentTransactions holds min(12, |display|) rows of the display row
\* set, in non-increasing order of raw date string; it holds no transfer
\* while the toggle is off, and no display row it omits has a date string
\* greater than that of a row it includes.
C8_RecencySelector ==
  LET rec == curRecent
      disp == DisplayRows
  IN  /\ Len(rec) = (IF Len(disp) < RecentN THEN Len(disp) ELSE RecentN)
      /\ \A i \in Indices(rec) : Count(rec, rec[i]) <= Count(disp, rec[i])
      /\ \A i \in Indices(rec) : \A j \in Indices(rec) :
           i < j => localeCompare(Str(rec[i], "date"), Str(rec[j], "date")) >= 0
      /\ ~showTransfers => \A i \in Indices(rec) : ~rec[i].is_transfer
      /\ \A d \in Indices(disp) :
           Count(rec, disp[d]) < Count(disp, disp[d]) =>
             \A i \in Indices(rec) :
               localeCompare(Str(rec[i], "date"), Str(disp[d], "date")) >= 0

C8_Witness ==
  /\ ~showTransfers
  /\ \E i \in Indices(curFiltered) : curFiltered[i].is_transfer
  /\ Len(DisplayRows) > RecentN
  /\ Len(curRecent) = RecentN
  /\ Str(curRecent[1], "date") # Str(curRecent[RecentN], "date")

(***************************************************************************)
(* C9: the load lifecycle.                                                 *)
(***************************************************************************)
NothingShown ==
  /\ tx = << >>
  /\ curSummary = [income |-> 0, expenses |-> 0, cashflow |-> 0]
  /\ curMonthly = << >>
  /\ curCategories = << >>
  /\ curMerchants = << >>
  /\ curRecent = << >>

\* C9: the load leaves loading exactly once, for ready or for error, and no
\* later SetStart, SetEnd, SetShowTransfers or SetTheme brings loading back; a
\* rejected fetch or a non-success response ends with a non-empty error
\* message, an empty record set and start/end at the fallback range, and from
\* then on summary is 0/0/0 and the monthly, category, merchant and recent
\* lists are empty; a load that succeeds leaves the error message empty.
C9_LoadLifecycle ==
  /\ [](loading \/ Ready \/ Failed)
  /\ [](Failed => NothingShown)
  /\ [][~loading => ~loading' /\ pc' = "done"]_vars
  /\ [][(~loading) => (error' = error /\ tx' = tx)]_vars
  /\ [][(FetchRejected \/ ResponseNotOk) =>
          (Failed' /\ start' = FallbackStart /\ end' = FallbackEnd
             /\ NothingShown')]_vars
  /\ [][LoadResolved => Ready']_vars
  /\ <>(~loading)

C9_Witness ==
  /\ Failed
  /\ theme = "night"
  /\ showTransfers
  /\ start # FallbackStart
  /\ end # FallbackEnd

(***************************************************************************)
(* C10: merchant fallback.                                                 *)
(***************************************************************************)
\* the merchant key as the data model states it: "(unknown)" for an absent
\* or blank merchant
MerchantOrUnknown(r) ==
  IF "merchant" \in DOMAIN r /\ trim(r.merchant) # ""
  THEN r.merchant
  ELSE "(unknown)"

MerchantKeys ==
  { "(unknown)", "Cafe", "Bank", "", " ", "  " }
    \cup { BulkMerchants[i] : i \in Indices(BulkMerchants) }

\* C10: merchant aggregation credits the absolute amount of every
\* non-transfer expense to "(unknown)" when its merchant is absent, empty or
\* whitespace only, and to its merchant otherwise; no entry of the merchant
\* spend list has a blank merchant.
C10_MerchantFallback ==
  /\ \A k \in MerchantKeys :
       MapValue(merchantMap(curRows), k) = GroupSpend(curRows, MerchantOrUnknown, k)
  /\ \A i \in Indices(curMerchants) : trim(curMerchants[i].merchant) # ""

=============================================================================
